---- MODULE Spec2Model ----
(***************************************************************************)
(* Token lifecycle of the Express/JWT authentication routes                *)
(* (routes/userRoutes.js): sign-up, sign-in, token refresh, password reset *)
(* request/confirm, account deletion and the authenticateToken guard, over *)
(* the three Mongoose collections User, RefreshToken and ResetToken.       *)
(* Every `await` of a handler is a scheduling point: a request in flight   *)
(* holds a slot of `reqs` between two store calls, and requests of         *)
(* different slots interleave.                                             *)
(***************************************************************************)
EXTENDS Integers, Sequences, FiniteSets

\* ------------------------------------------------------------------ bounds
\* concurrent requests in flight
NumSlots == 2
\* requests started in one behaviour
MaxReqs == 3
\* clock advances in one behaviour
MaxAdvance == 1
\* store calls that fail in one behaviour
MaxFaults == 1
\* resolution of the clock: ticks in one second
TicksPerSec == 2

\* --------------------------------------------------------- program constants
MsPerSec == 1000
\* a whole number of seconds, given in milliseconds, in ticks of the clock
Ticks(ms) == (ms \div MsPerSec) * TicksPerSec
\* expiresIn: "1h", in seconds as jsonwebtoken adds it to iat
HourSec == 3600
\* new Date(Date.now() + 1 * 60 * 60 * 1000)
ResetTtl == Ticks(1 * 60 * 60 * 1000)
\* mutant: the refresh record is given the lifetime of a reset record
RefreshTtlOneHour == Ticks(1 * 60 * 60 * 1000)
\* new Date(Date.now() + 14 * 24 * 60 * 60 * 1000)
RefreshTtl == Ticks(14 * 24 * 60 * 60 * 1000)
\* exp claim of a token signed without expiresIn (the claim is absent)
NoExp == 0
\* no response was sent (the request is left hanging)
NoResponse == 0

\* process.env.JWT_SECRET, REFRESH_TOKEN_SECRET, RESET_TOKEN_SECRET: three
\* independently generated secrets
AccessKey == "JWT_SECRET"
RefreshKey == "REFRESH_TOKEN_SECRET"
ResetKey == "RESET_TOKEN_SECRET"

\* ------------------------------------------------------------ input values
\* An email is a sequence of characters; <<>> is the absent/empty field.
NoEmail == <<>>
Emails == { <<"a">>, <<" ", "A">>, <<"b">> }
EmailInputs == Emails \cup {NoEmail}

\* A password is [head, tail]: head holds its first 72 bytes, the only ones
\* bcrypt reads, tail the rest; head = "" is the absent/empty field.
NoPassword == [head |-> "", tail |-> ""]
Passwords == { [head |-> "p1", tail |-> ""], [head |-> "p2", tail |-> ""] }
PasswordInputs == Passwords \cup {NoPassword}
\* a password longer than 72 bytes, given where a new password is chosen
LongPasswords == { [head |-> "p1", tail |-> "x"] }

\* ------------------------------------------------- schema setters (email)
Lower(c) == IF c = "A" THEN "a" ELSE IF c = "B" THEN "b" ELSE c

RECURSIVE TrimLeft(_)
TrimLeft(s) == IF s # <<>> /\ Head(s) = " " THEN TrimLeft(Tail(s)) ELSE s

RECURSIVE TrimRight(_)
TrimRight(s) ==
  IF s # <<>> /\ s[Len(s)] = " " THEN TrimRight(SubSeq(s, 1, Len(s) - 1)) ELSE s

\* trim: true, lowercase: true; Mongoose runs the setters on a saved value
\* and on the value of a query filter alike
NormalizeEmail(e) == LET t == TrimRight(TrimLeft(e)) IN [i \in 1..Len(t) |-> Lower(t[i])]

\* ----------------------------------------------------------------- bcrypt
\* the salt bcrypt draws for the n-th hash stored for user id: no two calls
\* draw the same
Salt(id, n) == [id |-> id, n |-> n]

\* bcrypt.hash(password, 10): a digest of the first 72 bytes under a fresh salt
bcryptHash(password, salt) == [salt |-> salt, digest |-> password.head]

\* bcrypt.compare(password, hash)
bcryptCompare(password, hash) == password.head = hash.digest

\* ------------------------------------------------------------ jsonwebtoken
\* A token string is determined by the key and the payload {userId, iat, exp}
\* (HS256 is deterministic), so the string is modelled by that record.
NoToken == [key |-> "none", userId |-> 0, iat |-> 0, exp |-> NoExp]
\* a token signed by a party that holds none of the three secrets
ForgedToken == [key |-> "forged", userId |-> 1, iat |-> 0, exp |-> NoExp]

\* Date.now() / 1000, floored: the clock jsonwebtoken signs and verifies with
ClockSec(t) == t \div TicksPerSec

\* jwt.sign({ userId }, key, { expiresIn }) at clock t; ttl = NoExp signs
\* without expiresIn
jwtSign(userId, key, ttl, t) ==
  [key |-> key, userId |-> userId, iat |-> ClockSec(t),
   exp |-> IF ttl = NoExp THEN NoExp ELSE ClockSec(t) + ttl]

\* the err argument of jwt.verify's callback: the signature does not match
\* the key, or the exp claim is present and the clock has reached it
jwtVerifyErr(token, key, t) ==
  \/ token.key # key
  \/ token.exp # NoExp /\ ClockSec(t) >= token.exp

\* the decoded payload jwt.verify hands to its callback
jwtDecoded(token) == [userId |-> token.userId, iat |-> token.iat, exp |-> token.exp]

\* ------------------------------------------------------------------- state
VARIABLES
  now,            \* Date.now(), in ticks
  advances,       \* clock advances so far
  faults,         \* failed store calls so far
  nreq,           \* requests started so far
  users,          \* the User collection: [id, email, password]
  nextId,         \* the next ObjectId the driver generates for a User
  refreshTokens,  \* the RefreshToken collection, in insertion order
  resetTokens,    \* the ResetToken collection, in insertion order
  reqs,           \* the requests in flight, one per slot
  resp,           \* the response sent last
  issued,         \* every token a response has handed to a client
  consumed,       \* history: reset tokens a 200 of POST /reset-password/:token used
  deleted,        \* history: user ids a 200 of DELETE /delete-user named
  refreshed,      \* history: refresh tokens a 200 of POST /token accepted
  halfDone        \* history: reset tokens whose password was saved and whose
                  \* deletion then failed

store == <<users, nextId, refreshTokens, resetTokens>>
clock == <<now, advances>>
history == <<issued, consumed, deleted, refreshed, halfDone>>
vars == <<now, advances, faults, nreq, users, nextId, refreshTokens, resetTokens,
          reqs, resp, issued, consumed, deleted, refreshed, halfDone>>

Slots == 1..NumSlots

\* findOne / findById found no document (null)
NoUser == [id |-> 0, email |-> NoEmail, password |-> bcryptHash(NoPassword, Salt(0, 0))]

\* the Authorization header, split(" "): <<>> is the absent header
NoHeader == <<>>

\* a free slot
Idle == [pc |-> "idle", email |-> NoEmail, password |-> NoPassword,
         token |-> NoToken, userId |-> 0, late |-> FALSE, redo |-> FALSE,
         sent |-> NoResponse]

\* a response: the status and body sent, the request it answers (op and
\* inputs), the tokens in its body, the userId the handler worked for, whether
\* a guarded handler ran, whether the token of a reset or a refresh had been
\* used before, or the user of a deletion deleted before (late), and whether an earlier reset with the token had saved
\* its password and failed to delete the record (redo)
NoResp == [op |-> "none", status |-> NoResponse, body |-> "",
           email |-> NoEmail, password |-> NoPassword, token |-> NoToken,
           header |-> NoHeader, accessToken |-> NoToken, refreshToken |-> NoToken,
           resetToken |-> NoToken, user |-> 0, ran |-> FALSE, late |-> FALSE,
           redo |-> FALSE]

\* The clock starts one tick past a whole second, so that an expiry counted
\* in seconds and one counted from the clock itself fall on different ticks.
\* The server starts on an empty database, or on the database that three
\* requests answered just before left behind: a sign-up of SeedEmail with
\* SeedPassword, a sign-in with them, and a reset request for SeedEmail.
SeedEmail == <<"a">>
SeedPassword == [head |-> "p1", tail |-> ""]

Init ==
  /\ now = 1
  /\ advances = 0
  /\ faults = 0
  /\ nreq = 0
  /\ reqs = [s \in Slots |-> Idle]
  /\ resp = NoResp
  /\ consumed = {}
  /\ deleted = {}
  /\ refreshed = {}
  /\ halfDone = {}
  /\ \/ /\ users = {}
        /\ nextId = 1
        /\ refreshTokens = <<>>
        /\ resetTokens = <<>>
        /\ issued = {}
     \/ /\ users = {[id |-> 1, email |-> NormalizeEmail(SeedEmail),
                     password |-> bcryptHash(SeedPassword, Salt(1, 1))]}
        /\ nextId = 2
        /\ refreshTokens = <<[token |-> jwtSign(1, RefreshKey, NoExp, now), user |-> 1,
                              expiryDate |-> now + RefreshTtl]>>
        /\ resetTokens = <<[token |-> jwtSign(1, ResetKey, HourSec, now), user |-> 1,
                            expiryDate |-> now + ResetTtl]>>
        /\ issued = {jwtSign(1, AccessKey, HourSec, now),
                     jwtSign(1, RefreshKey, NoExp, now),
                     jwtSign(1, ResetKey, HourSec, now)}

\* ------------------------------------------------------------ store calls
\* whether a store call may fail now (the driver throws / the promise rejects)
FaultChoices == IF faults < MaxFaults THEN {FALSE, TRUE} ELSE {FALSE}

Fault(f) == faults' = IF f THEN faults + 1 ELSE faults

\* mutant: the query filter is not run through the schema setters
findUserByRawEmail(email) ==
  LET m == {u \in users : u.email = email}
  IN IF m = {} THEN NoUser ELSE CHOOSE u \in m : TRUE

\* User.findOne({ email })
findUserByEmail(email) ==
  LET m == {u \in users : u.email = NormalizeEmail(email)}
  IN IF m = {} THEN NoUser ELSE CHOOSE u \in m : TRUE

\* mutant: the call resolves and removes nothing
findByIdAndDeleteNothing(coll, id) == coll

\* User.findByIdAndDelete(id)
findByIdAndDelete(coll, id) == {u \in coll : u.id # id}

\* mutant: the lookup answers from a cache that a deletion does not clear
findUserByIdStale(id) ==
  LET m == {u \in users : u.id = id}
  IN IF m = {}
     THEN [id |-> id, email |-> NoEmail, password |-> bcryptHash(NoPassword, Salt(id, 0))]
     ELSE CHOOSE u \in m : TRUE

\* User.findById(id)
findUserById(id) ==
  LET m == {u \in users : u.id = id}
  IN IF m = {} THEN NoUser ELSE CHOOSE u \in m : TRUE

\* mutant: the schema declares no unique index
NoUniqueIndex(email) == FALSE

\* the unique index on User.email refuses the insert (E11000)
DuplicateEmail(email) == \E u \in users : u.email = NormalizeEmail(email)

\* Model.findOne({ token }): the position of the first matching document, 0
\* when there is none
findOneToken(ledger, token) ==
  LET m == {i \in 1..Len(ledger) : ledger[i].token = token}
  IN IF m = {} THEN 0 ELSE CHOOSE i \in m : \A j \in m : i <= j

\* mutant: the expiry check lets the very instant of expiry pass
MissingOrExpiredLate(ledger, i, t) == i = 0 \/ ledger[i].expiryDate < t

\* mutant: the lookup claims the record, and a request that finds it claimed
\* by a request in flight is refused
MissingOrExpiredOrClaimed(ledger, i, t) ==
  \/ i = 0
  \/ ledger[i].expiryDate <= t
  \/ \E s \in 1..NumSlots : /\ reqs[s].pc \in {"rc_user", "rc_save", "rc_delete"}
                            /\ reqs[s].token = ledger[i].token

\* mutant: a refresh token is good for one use
MissingOrExpiredOrUsed(ledger, i, t) ==
  i = 0 \/ ledger[i].expiryDate <= t \/ ledger[i].token \in refreshed

\* !stored || stored.expiryDate <= new Date()
MissingOrExpired(ledger, i, t) == i = 0 \/ ledger[i].expiryDate <= t

\* the sequence without its i-th element
RemoveAt(seq, i) == [j \in 1..(Len(seq) - 1) |-> IF j < i THEN seq[j] ELSE seq[j + 1]]

\* Model.findOneAndDelete({ token })
findOneAndDelete(ledger, token) ==
  LET i == findOneToken(ledger, token)
  IN IF i = 0 THEN ledger ELSE RemoveAt(ledger, i)

RECURSIVE SelectSeqNot(_, _)
SelectSeqNot(seq, userId) ==
  IF seq = <<>> THEN <<>>
  ELSE IF Head(seq).user = userId THEN SelectSeqNot(Tail(seq), userId)
  ELSE <<Head(seq)>> \o SelectSeqNot(Tail(seq), userId)

\* mutant: the filter is dropped, and every document goes
deleteManyUnfiltered(ledger, userId) == <<>>

\* Model.deleteMany({ user: userId })
deleteMany(ledger, userId) == SelectSeqNot(ledger, userId)

\* ---------------------------------------------------------------- requests
\* the slot a new request takes
FreeSlots == {s \in Slots : reqs[s].pc = "idle"}
NewSlot == CHOOSE s \in FreeSlots : \A r \in FreeSlots : s <= r
CanStart == nreq < MaxReqs /\ FreeSlots # {}

\* the request of slot s ends with response r
Respond(s, r) ==
  /\ resp' = r
  /\ reqs' = [reqs EXCEPT ![s] = Idle]

\* the request of slot s goes on to its next store call
Continue(s, r) ==
  /\ reqs' = [reqs EXCEPT ![s] = r]
  /\ resp' = resp

\* the response of operation op, before its status is set
NewResp(op) == [NoResp EXCEPT !.op = op]

\* the response under construction of the request in slot s
RespOf(op, s) ==
  [NoResp EXCEPT !.op = op, !.email = reqs[s].email,
                 !.password = reqs[s].password, !.token = reqs[s].token,
                 !.late = reqs[s].late, !.redo = reqs[s].redo,
                 !.user = reqs[s].userId]

\* res.status(status).json({ message: body })
Send(r, status, body) == [r EXCEPT !.status = status, !.body = body]

\* ------------------------------------------------------------ POST /sign-up
\* up to the answer of User.findOne
SignUp(email, password, f) ==
  /\ CanStart
  /\ nreq' = nreq + 1
  /\ LET s == NewSlot
         r == [NewResp("sign-up") EXCEPT !.email = email, !.password = password]
     IN IF email = NoEmail \/ password.head = ""
        THEN /\ Respond(s, Send(r, 400, "Email and password are required."))
             /\ faults' = faults
        ELSE /\ Fault(f)
             /\ IF f THEN Respond(s, Send(r, 500, "Error creating user."))
                ELSE IF findUserByEmail(email) # NoUser
                THEN Respond(s, Send(r, 409, "Email already in use."))
                ELSE Continue(s, [Idle EXCEPT !.pc = "su_save",
                                              !.email = email, !.password = password])
  /\ UNCHANGED <<store, clock, history>>

\* bcrypt.hash, then user.save() and the response
SignUpSave(s, f) ==
  /\ reqs[s].pc = "su_save"
  /\ Fault(f)
  /\ LET q == reqs[s]
         r == RespOf("sign-up", s)
         hash == bcryptHash(q.password, Salt(nextId, 1))
     IN IF f \/ DuplicateEmail(q.email)
        THEN /\ Respond(s, Send(r, 500, "Error creating user."))
             /\ UNCHANGED <<users, nextId>>
        ELSE /\ users' = users \cup {[id |-> nextId, email |-> NormalizeEmail(q.email),
                                      password |-> hash]}
             /\ nextId' = nextId + 1
             /\ Respond(s, [Send(r, 201, "User created successfully.") EXCEPT !.user = nextId])
  /\ UNCHANGED <<refreshTokens, resetTokens, clock, nreq, issued, consumed, deleted, refreshed, halfDone>>

\* ------------------------------------------------------------ POST /sign-in
\* mutant: an unknown email is answered as POST /reset-password answers it
UnknownEmailNotFound(r) == Send(r, 404, "User not found.")

\* if (!user) return res.status(401).json({ message: "Invalid credentials." })
UnknownEmailResponse(r) == Send(r, 401, "Invalid credentials.")

\* if (!isMatch) return res.status(401).json({ message: "Invalid credentials." })
WrongPasswordResponse(r) == Send(r, 401, "Invalid credentials.")

\* up to the answers of User.findOne and bcrypt.compare
SignIn(email, password, f) ==
  /\ CanStart
  /\ nreq' = nreq + 1
  /\ LET s == NewSlot
         r == [NewResp("sign-in") EXCEPT !.email = email, !.password = password]
         user == findUserByEmail(email)
     IN IF email = NoEmail \/ password.head = ""
        THEN /\ Respond(s, Send(r, 400, "Email and password are required."))
             /\ faults' = faults
        ELSE /\ Fault(f)
             /\ IF f THEN Respond(s, Send(r, 500, "Error signing in user."))
                ELSE IF user = NoUser
                THEN Respond(s, UnknownEmailResponse(r))
                ELSE IF ~bcryptCompare(password, user.password)
                THEN Respond(s, WrongPasswordResponse(r))
                ELSE Continue(s, [Idle EXCEPT !.pc = "si_save",
                                              !.email = email, !.password = password,
                                              !.userId = user.id])
  /\ UNCHANGED <<store, clock, history>>

\* mutant: the access token is signed with the refresh secret
SignAccessWithRefreshKey(userId, t) == jwtSign(userId, RefreshKey, HourSec, t)

\* the access token of a sign-in or a refresh: jwt.sign({ userId }, JWT_SECRET, 1h)
SignAccess(userId, t) == jwtSign(userId, AccessKey, HourSec, t)

\* mutant: the payload of the refresh token carries no subject
SignRefreshNoSubject(userId, t) == jwtSign(0, RefreshKey, NoExp, t)

\* mutant: the refresh token is signed with expiresIn: "1h"
SignRefreshExpiring(userId, t) == jwtSign(userId, RefreshKey, HourSec, t)

\* the refresh token of a sign-in: jwt.sign({ userId }, REFRESH_TOKEN_SECRET)
SignRefresh(userId, t) == jwtSign(userId, RefreshKey, NoExp, t)

\* the two jwt.sign calls, then newRefreshToken.save() and the response
SignInSave(s, f) ==
  /\ reqs[s].pc = "si_save"
  /\ Fault(f)
  /\ LET q == reqs[s]
         r == RespOf("sign-in", s)
         token == SignAccess(q.userId, now)
         refreshToken == SignRefresh(q.userId, now)
     IN IF f
        THEN /\ Respond(s, Send(r, 500, "Error signing in user."))
             /\ UNCHANGED <<refreshTokens, issued>>
        ELSE /\ refreshTokens' = Append(refreshTokens,
                    [token |-> refreshToken, user |-> q.userId,
                     expiryDate |-> now + RefreshTtl])
             /\ issued' = issued \cup {token, refreshToken}
             /\ Respond(s, [Send(r, 200, "User logged in successfully.")
                             EXCEPT !.accessToken = token, !.refreshToken = refreshToken])
  /\ UNCHANGED <<users, nextId, resetTokens, clock, nreq, consumed, deleted, refreshed, halfDone>>

\* -------------------------------------------------------------- POST /token
\* the tokens a client can present: those a response handed out, and a forgery
TokenInputs == issued \cup {ForgedToken}

\* the whole handler: it awaits RefreshToken.findOne only, outside any try
Token(t, f) ==
  /\ CanStart
  /\ nreq' = nreq + 1
  /\ LET s == NewSlot
         i == findOneToken(refreshTokens, t)
         r == [NewResp("token") EXCEPT !.token = t, !.late = t \in refreshed]
         accessToken == SignAccess(jwtDecoded(t).userId, now)
     IN IF t = NoToken
        THEN /\ Respond(s, Send(r, 400, "Refresh token is required."))
             /\ UNCHANGED <<faults, issued, refreshed>>
        ELSE /\ Fault(f)
             /\ IF f
                THEN Respond(s, r) /\ UNCHANGED <<issued, refreshed>>
                ELSE IF MissingOrExpired(refreshTokens, i, now)
                THEN /\ Respond(s, Send(r, 401, "Invalid or expired refresh token"))
                     /\ UNCHANGED <<issued, refreshed>>
                ELSE IF jwtVerifyErr(t, RefreshKey, now)
                THEN /\ Respond(s, Send(r, 403, "Refresh token verification failed"))
                     /\ UNCHANGED <<issued, refreshed>>
                ELSE /\ Respond(s, [Send(r, 200, "") EXCEPT !.accessToken = accessToken,
                                                            !.user = jwtDecoded(t).userId])
                     /\ issued' = issued \cup {accessToken}
                     /\ refreshed' = refreshed \cup {t}
  /\ UNCHANGED <<store, clock, consumed, deleted, halfDone>>

\* ------------------------------------------------------ POST /reset-password
\* up to the answer of User.findOne
ResetPassword(email, f) ==
  /\ CanStart
  /\ nreq' = nreq + 1
  /\ LET s == NewSlot
         r == [NewResp("reset-password") EXCEPT !.email = email]
         user == findUserByEmail(email)
     IN IF email = NoEmail
        THEN /\ Respond(s, Send(r, 400, "Email is required."))
             /\ faults' = faults
        ELSE /\ Fault(f)
             /\ IF f THEN Respond(s, Send(r, 500, "Error resetting password."))
                ELSE IF user = NoUser
                THEN Respond(s, Send(r, 404, "User not found."))
                ELSE Continue(s, [Idle EXCEPT !.pc = "rp_save",
                                              !.email = email, !.userId = user.id])
  /\ UNCHANGED <<store, clock, history>>

\* the reset token: jwt.sign({ userId }, RESET_TOKEN_SECRET, 1h)
SignReset(userId, t) == jwtSign(userId, ResetKey, HourSec, t)

\* jwt.sign, then newResetToken.save() and the response
ResetPasswordSave(s, f) ==
  /\ reqs[s].pc = "rp_save"
  /\ Fault(f)
  /\ LET q == reqs[s]
         r == RespOf("reset-password", s)
         resetToken == SignReset(q.userId, now)
     IN IF f
        THEN /\ Respond(s, Send(r, 500, "Error resetting password."))
             /\ UNCHANGED <<resetTokens, issued>>
        ELSE /\ resetTokens' = Append(resetTokens,
                    [token |-> resetToken, user |-> q.userId,
                     expiryDate |-> now + ResetTtl])
             /\ issued' = issued \cup {resetToken}
             /\ Respond(s, [Send(r, 200, "Reset token generated successfully.")
                             EXCEPT !.resetToken = resetToken])
  /\ UNCHANGED <<users, nextId, refreshTokens, clock, nreq, consumed, deleted, refreshed, halfDone>>

\* ----------------------------------------------- POST /reset-password/:token
\* up to the answer of ResetToken.findOne, the expiry check and jwt.verify,
\* whose callback runs synchronously; the findOne is inside the try
ResetConfirm(t, password, f) ==
  /\ CanStart
  /\ nreq' = nreq + 1
  /\ LET s == NewSlot
         i == findOneToken(resetTokens, t)
         r == [NewResp("reset-confirm") EXCEPT !.token = t,
                 !.password = password, !.late = t \in consumed,
                 !.redo = t \in halfDone]
     IN IF password.head = ""
        THEN /\ Respond(s, Send(r, 400, "Password is required."))
             /\ faults' = faults
        ELSE /\ Fault(f)
             /\ IF f THEN Respond(s, Send(r, 500, "Error resetting password."))
                ELSE IF MissingOrExpired(resetTokens, i, now)
                THEN Respond(s, Send(r, 401, "Invalid or expired reset token"))
                ELSE IF jwtVerifyErr(t, ResetKey, now)
                THEN Respond(s, Send(r, 403, "Reset token verification failed"))
                ELSE Continue(s, [Idle EXCEPT !.pc = "rc_user",
                                    !.token = t, !.password = password,
                                    !.userId = jwtDecoded(t).userId,
                                    !.late = t \in consumed,
                                    !.redo = t \in halfDone])
  /\ UNCHANGED <<store, clock, history>>

\* mutant: when the user is gone the handler removes the record of the token
\* before it answers 404
ResetConfirmUserCleansUp(s, f) ==
  /\ reqs[s].pc = "rc_user"
  /\ Fault(f)
  /\ LET q == reqs[s]
         r == RespOf("reset-confirm", s)
         user == findUserById(q.userId)
     IN IF f THEN Respond(s, r) /\ resetTokens' = resetTokens
        ELSE IF user = NoUser
        THEN /\ Respond(s, Send(r, 404, "User not found."))
             /\ resetTokens' = findOneAndDelete(resetTokens, q.token)
        ELSE Continue(s, [q EXCEPT !.pc = "rc_save"]) /\ resetTokens' = resetTokens
  /\ UNCHANGED <<users, nextId, refreshTokens, clock, nreq, history>>

\* User.findById(decoded.userId), inside the async callback of jwt.verify: a
\* rejection there reaches no catch, and no response is sent
ResetConfirmUser(s, f) ==
  /\ reqs[s].pc = "rc_user"
  /\ Fault(f)
  /\ LET q == reqs[s]
         r == RespOf("reset-confirm", s)
         user == findUserById(q.userId)
     IN IF f THEN Respond(s, r)
        ELSE IF user = NoUser THEN Respond(s, Send(r, 404, "User not found."))
        ELSE Continue(s, [q EXCEPT !.pc = "rc_save"])
  /\ UNCHANGED <<store, clock, nreq, history>>

\* bcrypt.hash, user.password = hashedPassword, user.save(): an update of the
\* loaded document, which throws when the document is gone
ResetConfirmSave(s, f) ==
  /\ reqs[s].pc = "rc_save"
  /\ Fault(f)
  /\ LET q == reqs[s]
         r == RespOf("reset-confirm", s)
         user == findUserById(q.userId)
         hash == bcryptHash(q.password, Salt(q.userId, user.password.salt.n + 1))
     IN IF f \/ user = NoUser
        THEN Respond(s, r) /\ users' = users
        ELSE /\ users' = {IF u.id = q.userId THEN [u EXCEPT !.password = hash] ELSE u
                           : u \in users}
             /\ Continue(s, [q EXCEPT !.pc = "rc_delete"])
  /\ UNCHANGED <<nextId, refreshTokens, resetTokens, clock, nreq, history>>

\* mutant: a successful reset also signs the user out everywhere
ResetConfirmDeleteRevokes(s, f) ==
  /\ reqs[s].pc = "rc_delete"
  /\ Fault(f)
  /\ LET q == reqs[s]
         r == RespOf("reset-confirm", s)
     IN IF f
        THEN /\ Respond(s, r)
             /\ halfDone' = halfDone \cup {q.token}
             /\ UNCHANGED <<resetTokens, refreshTokens, consumed>>
        ELSE /\ resetTokens' = findOneAndDelete(resetTokens, q.token)
             /\ refreshTokens' = deleteMany(refreshTokens, q.userId)
             /\ consumed' = consumed \cup {q.token}
             /\ halfDone' = halfDone
             /\ Respond(s, Send(r, 200, "Password reset successful."))
  /\ UNCHANGED <<users, nextId, clock, nreq, issued, deleted, refreshed>>

\* ResetToken.findOneAndDelete({ token }) and the response
ResetConfirmDelete(s, f) ==
  /\ reqs[s].pc = "rc_delete"
  /\ Fault(f)
  /\ LET q == reqs[s]
         r == RespOf("reset-confirm", s)
     IN IF f
        THEN /\ Respond(s, r)
             /\ halfDone' = halfDone \cup {q.token}
             /\ UNCHANGED <<resetTokens, consumed>>
        ELSE /\ resetTokens' = findOneAndDelete(resetTokens, q.token)
             /\ consumed' = consumed \cup {q.token}
             /\ halfDone' = halfDone
             /\ Respond(s, Send(r, 200, "Password reset successful."))
  /\ UNCHANGED <<users, nextId, refreshTokens, clock, nreq, issued, deleted, refreshed>>

\* ------------------------------------------------------- authenticateToken
\* the headers a client can send: none, a scheme without a token, a bearer token
Headers == {NoHeader, <<"Bearer">>} \cup {<<"Bearer", t>> : t \in TokenInputs}

\* authHeader && authHeader.split(" ")[1]
BearerToken(header) == IF Len(header) >= 2 THEN header[2] ELSE NoToken

\* mutant: the token is decoded, its signature never checked
authenticateTokenDecodeOnly(header, t) ==
  LET token == BearerToken(header)
  IN IF token = NoToken
     THEN [status |-> 401, body |-> "Authorization failed. No access token.",
           next |-> FALSE, userId |-> 0]
     ELSE IF token.exp # NoExp /\ ClockSec(t) >= token.exp
     THEN [status |-> 403, body |-> "Invalid token", next |-> FALSE, userId |-> 0]
     ELSE [status |-> NoResponse, body |-> "", next |-> TRUE,
           userId |-> jwtDecoded(token).userId]

\* mutant: the 403 is sent without `return`, and next() runs all the same
authenticateTokenNoReturn(header, t) ==
  LET token == BearerToken(header)
  IN IF token = NoToken
     THEN [status |-> 401, body |-> "Authorization failed. No access token.",
           next |-> FALSE, userId |-> 0]
     ELSE IF jwtVerifyErr(token, AccessKey, t)
     THEN [status |-> 403, body |-> "Invalid token", next |-> TRUE,
           userId |-> jwtDecoded(token).userId]
     ELSE [status |-> NoResponse, body |-> "", next |-> TRUE,
           userId |-> jwtDecoded(token).userId]

\* mutant: a deletion revokes the access tokens of the deleted user
authenticateTokenRevoked(header, t) ==
  LET token == BearerToken(header)
  IN IF token = NoToken
     THEN [status |-> 401, body |-> "Authorization failed. No access token.",
           next |-> FALSE, userId |-> 0]
     ELSE IF jwtVerifyErr(token, AccessKey, t) \/ token.userId \in deleted
     THEN [status |-> 403, body |-> "Invalid token", next |-> FALSE, userId |-> 0]
     ELSE [status |-> NoResponse, body |-> "", next |-> TRUE,
           userId |-> jwtDecoded(token).userId]

\* mutant: the middleware looks the subject up, and refuses a token whose
\* user is gone
authenticateTokenChecksUser(header, t) ==
  LET token == BearerToken(header)
  IN IF token = NoToken
     THEN [status |-> 401, body |-> "Authorization failed. No access token.",
           next |-> FALSE, userId |-> 0]
     ELSE IF jwtVerifyErr(token, AccessKey, t) \/ findUserById(token.userId) = NoUser
     THEN [status |-> 403, body |-> "Invalid token", next |-> FALSE, userId |-> 0]
     ELSE [status |-> NoResponse, body |-> "", next |-> TRUE,
           userId |-> jwtDecoded(token).userId]

\* the middleware at clock t: the response it sends (status NoResponse when it
\* sends none), whether it calls next(), and the userId of req.user
authenticateToken(header, t) ==
  LET token == BearerToken(header)
  IN IF token = NoToken
     THEN [status |-> 401, body |-> "Authorization failed. No access token.",
           next |-> FALSE, userId |-> 0]
     ELSE IF jwtVerifyErr(token, AccessKey, t)
     THEN [status |-> 403, body |-> "Invalid token", next |-> FALSE, userId |-> 0]
     ELSE [status |-> NoResponse, body |-> "", next |-> TRUE,
           userId |-> jwtDecoded(token).userId]

\* ------------------------------------------------------ DELETE /delete-user
\* the guard, then up to the answer of User.findByIdAndDelete
DeleteUser(header, f) ==
  /\ CanStart
  /\ nreq' = nreq + 1
  /\ LET s == NewSlot
         g == authenticateToken(header, now)
         r == [NewResp("delete-user") EXCEPT !.header = header,
                 !.token = BearerToken(header)]
         answered == Send(r, g.status, g.body)
     IN IF ~g.next
        THEN /\ Respond(s, answered)
             /\ UNCHANGED <<faults, users>>
        ELSE /\ Fault(f)
             /\ IF f
                THEN /\ Respond(s, [Send(r, 500, "Error deleting user.") EXCEPT
                                      !.ran = TRUE, !.user = g.userId])
                     /\ users' = users
                ELSE /\ users' = findByIdAndDelete(users, g.userId)
                     /\ reqs' = [reqs EXCEPT ![s] =
                                   [Idle EXCEPT !.pc = "du_tokens",
                                                !.token = BearerToken(header),
                                                !.userId = g.userId, !.sent = g.status,
                                                !.late = g.userId \in deleted]]
                     /\ resp' = IF g.status = NoResponse THEN resp ELSE answered
  /\ UNCHANGED <<nextId, refreshTokens, resetTokens, clock, history>>

\* RefreshToken.deleteMany({ user: userId }) and the response
DeleteUserTokens(s, f) ==
  /\ reqs[s].pc = "du_tokens"
  /\ Fault(f)
  /\ LET q == reqs[s]
         r == [RespOf("delete-user", s) EXCEPT !.ran = TRUE,
                 !.header = <<"Bearer", q.token>>]
     IN IF f
        THEN /\ Respond(s, Send(r, 500, "Error deleting user."))
             /\ UNCHANGED <<refreshTokens, deleted>>
        ELSE /\ refreshTokens' = deleteMany(refreshTokens, q.userId)
             /\ deleted' = deleted \cup {q.userId}
             /\ Respond(s, Send(r, 200, "User deleted successfully."))
  /\ UNCHANGED <<users, nextId, resetTokens, clock, nreq, issued, consumed, refreshed, halfDone>>

\* ----------------------------------------------------------- GET /protected
Protected(header) ==
  /\ CanStart
  /\ nreq' = nreq + 1
  /\ LET s == NewSlot
         g == authenticateToken(header, now)
         r == [NewResp("protected") EXCEPT !.header = header,
                 !.token = BearerToken(header)]
     IN IF ~g.next
        THEN Respond(s, Send(r, g.status, g.body))
        ELSE Respond(s, [Send(r, IF g.status = NoResponse THEN 200 ELSE g.status,
                               IF g.status = NoResponse THEN "This is a protected route"
                               ELSE g.body)
                          EXCEPT !.ran = TRUE, !.user = g.userId])
  /\ UNCHANGED <<store, clock, faults, history>>

\* -------------------------------------------------------------------- clock
\* one tick, an hour less one tick, fourteen days
Deltas == {1, ResetTtl - 1, RefreshTtl}

Advance(d) ==
  /\ advances < MaxAdvance
  /\ advances' = advances + 1
  /\ now' = now + d
  /\ UNCHANGED <<store, faults, nreq, reqs, resp, history>>

\* ---------------------------------------------------------- specification
Next ==
  \/ \E e \in EmailInputs, p \in PasswordInputs, f \in FaultChoices : SignUp(e, p, f)
  \/ \E s \in Slots, f \in FaultChoices : SignUpSave(s, f)
  \/ \E e \in EmailInputs, p \in PasswordInputs, f \in FaultChoices : SignIn(e, p, f)
  \/ \E s \in Slots, f \in FaultChoices : SignInSave(s, f)
  \/ \E t \in TokenInputs \cup {NoToken}, f \in FaultChoices : Token(t, f)
  \/ \E e \in EmailInputs, f \in FaultChoices : ResetPassword(e, f)
  \/ \E s \in Slots, f \in FaultChoices : ResetPasswordSave(s, f)
  \/ \E t \in TokenInputs, p \in PasswordInputs \cup LongPasswords, f \in FaultChoices :
        ResetConfirm(t, p, f)
  \/ \E s \in Slots, f \in FaultChoices : ResetConfirmUser(s, f)
  \/ \E s \in Slots, f \in FaultChoices : ResetConfirmSave(s, f)
  \/ \E s \in Slots, f \in FaultChoices : ResetConfirmDelete(s, f)
  \/ \E h \in Headers, f \in FaultChoices : DeleteUser(h, f)
  \/ \E s \in Slots, f \in FaultChoices : DeleteUserTokens(s, f)
  \/ \E h \in Headers : Protected(h)
  \/ \E d \in Deltas : Advance(d)

Spec == Init /\ [][Next]_vars

\* ------------------------------------------------------- steps, as seen
\* in a pair of states
\* this step is the first of a request
Started == nreq' = nreq + 1

\* this step is the first of a request and sent its response
AnsweredAtOnce == Started /\ reqs' = reqs

\* this step ended the request in flight in slot s
Finished(s) == reqs[s].pc # "idle" /\ reqs'[s].pc = "idle"

\* this step took the request in slot s from pc `from` to pc `to`
Moved(s, from, to) == reqs[s].pc = from /\ reqs'[s].pc = to

\* no store call failed in this step
NoFault == faults' = faults

\* a request of POST /reset-password/:token is past the lookup of its token
PastLookup(s) == reqs[s].pc \in {"rc_user", "rc_save", "rc_delete"}

\* ------------------------------------------------------------------ claims

\* C1 (as claimed): once a POST /reset-password/:token with a token string has
\* answered 200, every later request with that string and a password (and no
\* failing store call) answers 401 and never gets past the lookup, so it
\* changes no password.
C1_ConsumedTokenRefused ==
  /\ \A s \in Slots : PastLookup(s) => ~reqs[s].late
  /\ (resp.op = "reset-confirm" /\ resp.late /\ resp.password.head # ""
        /\ resp.status \notin {NoResponse, 500})
     => resp.status = 401

\* a record of `ledger` holds exactly the string `token` and expires strictly
\* after clock t
LiveRecord(ledger, token, t) ==
  \E i \in 1..Len(ledger) : ledger[i].token = token /\ ledger[i].expiryDate > t

\* C2: POST /token answers 200, and POST /reset-password/:token gets past its
\* lookup (the only way to its 200 and to the password update), only if at
\* that moment the ledger of that purpose holds a record with exactly that
\* token string whose expiry is strictly later than the clock, and the token
\* is signed with that purpose's key.
C2_HonoredOnlyWithLiveRecord ==
  [][ /\ (AnsweredAtOnce /\ resp'.op = "token" /\ resp'.status = 200)
         => /\ LiveRecord(refreshTokens, resp'.token, now)
            /\ resp'.token.key = RefreshKey
      /\ \A s \in Slots :
           /\ Moved(s, "idle", "rc_user")
              => /\ LiveRecord(resetTokens, reqs'[s].token, now)
                 /\ reqs'[s].token.key = ResetKey
           /\ (Finished(s) /\ resp'.op = "reset-confirm" /\ resp'.status = 200)
              => reqs[s].pc = "rc_delete"
           /\ (PastLookup(s)' /\ reqs[s].pc # "idle") => PastLookup(s)
    ]_vars

\* C2 witness: a reset token was honored, and after it a refresh token was
\* honored too
C2_Witness ==
  /\ consumed # {}
  /\ resp.op = "token" /\ resp.status = 200

\* C3 (as claimed): once DELETE /delete-user has answered 200 for a user, a
\* POST /token with a refresh token that a sign-in handed out for that user
\* answers 401 (or nothing, when the store call fails) and hands out no
\* access token.
C3_RefreshRefusedAfterDelete ==
  (resp.op = "token" /\ resp.token \in issued /\ resp.token.key = RefreshKey
     /\ resp.token.userId \in deleted)
  => (resp.status \in {401, NoResponse} /\ resp.accessToken = NoToken)

\* a User record that the credentials (email, password) open
Opens(u, email, password) ==
  u.email = NormalizeEmail(email) /\ bcryptCompare(password, u.password)

\* C4: a 201 of POST /sign-up leaves a new User record that the credentials
\* of the request open; a POST /sign-in whose credentials open a stored
\* record is not refused, goes on for the identifier of that record, and,
\* its store call not failing, answers 200 with an access token that
\* authenticateToken accepts and whose subject is that identifier.
C4_RegisterThenAuthenticate ==
  [][ \A s \in Slots :
        /\ (Moved(s, "su_save", "idle") /\ resp'.status = 201)
           => \E u \in users' \ users :
                /\ u.id = resp'.user /\ u.id \notin {v.id : v \in users}
                /\ Opens(u, resp'.email, resp'.password)
        /\ (AnsweredAtOnce /\ NoFault /\ resp'.op = "sign-in")
           => ~\E u \in users : Opens(u, resp'.email, resp'.password)
        /\ Moved(s, "idle", "si_save")
           => \E u \in users : /\ Opens(u, reqs'[s].email, reqs'[s].password)
                               /\ reqs'[s].userId = u.id
        /\ (Moved(s, "si_save", "idle") /\ NoFault)
           => /\ resp'.status = 200
              /\ authenticateToken(<<"Bearer", resp'.accessToken>>, now).next
              /\ authenticateToken(<<"Bearer", resp'.accessToken>>, now).userId
                   = reqs[s].userId
    ]_vars

\* C4 witness: a sign-up with an email in capitals and with blanks made the
\* record, and a sign-in with the same credentials answered 200 for it
C4_Witness ==
  /\ resp.op = "sign-in" /\ resp.status = 200
  /\ resp.email = <<" ", "A">> /\ resp.password.head = "p2"
  /\ consumed = {}
  /\ \E u \in users : u.id = resp.user /\ Opens(u, resp.email, resp.password)

\* no two User records hold the same email
UniqueEmails == \A u, v \in users : u.email = v.email => u = v

\* C5: no two User records hold the same email; a sign-up that reaches
\* user.save() when a record with its email exists (another sign-up saved it
\* after this one's existence check) answers 500 and leaves every User record
\* as it was.
C5_EmailUnique ==
  [][ /\ UniqueEmails'
      /\ \A s \in Slots :
           (Finished(s) /\ reqs[s].pc = "su_save"
              /\ \E u \in users : u.email = NormalizeEmail(reqs[s].email))
           => (resp'.status = 500 /\ users' = users)
    ]_vars

\* C5 witness: a sign-up lost the race: it passed the existence check, no
\* store call failed, and its save was refused
C5_Witness ==
  /\ resp.op = "sign-up" /\ resp.status = 500 /\ faults = 0
  /\ \E u \in users : u.email = NormalizeEmail(resp.email)

\* the store holds a record with this email
Holds(email) == \E u \in users : u.email = NormalizeEmail(email)

\* C6 (as claimed): a POST /sign-up with an email the store holds answers 409
\* for every password value, the store call not failing, and changes no User
\* record.
C6_ConflictForEveryPassword ==
  [][ (Started /\ NoFault /\ resp'.op = "sign-up" /\ AnsweredAtOnce /\ Holds(resp'.email))
      => (resp'.status = 409 /\ users' = users)
    ]_vars

\* C6 (amended): a POST /sign-up with a non-empty password and an email the
\* store holds answers 409 whatever the password, the store call not
\* failing, changes no User record, and never goes on to user.save().
C6_ConflictForEveryGivenPassword ==
  [][ /\ (Started /\ NoFault /\ resp'.op = "sign-up" /\ AnsweredAtOnce
            /\ Holds(resp'.email) /\ resp'.password.head # "")
         => (resp'.status = 409 /\ users' = users)
      /\ \A s \in Slots : Moved(s, "idle", "su_save") => ~Holds(reqs'[s].email)
    ]_vars

\* C6 witness: a sign-up was refused with 409 for an email that differs from
\* the stored one in case and blanks, with a password other than the stored
C6_Witness ==
  /\ resp.op = "sign-up" /\ resp.status = 409
  /\ \E u \in users : /\ u.email = NormalizeEmail(resp.email)
                      /\ u.email # resp.email
                      /\ ~bcryptCompare(resp.password, u.password)

\* C7: a POST /sign-in with an email no record holds and one with a held email
\* and a password its record does not open are answered alike, with 401 and
\* the body "Invalid credentials." and no token, and leave the RefreshToken
\* ledger as it was (both fields given, the store call not failing).
C7_SameRefusal ==
  [][ (AnsweredAtOnce /\ NoFault /\ resp'.op = "sign-in"
         /\ resp'.email # NoEmail /\ resp'.password.head # ""
         /\ \/ ~Holds(resp'.email)
            \/ \E u \in users : /\ u.email = NormalizeEmail(resp'.email)
                                /\ ~bcryptCompare(resp'.password, u.password))
      => /\ resp'.status = 401
         /\ resp'.body = "Invalid credentials."
         /\ resp'.accessToken = NoToken /\ resp'.refreshToken = NoToken
         /\ refreshTokens' = refreshTokens
    ]_vars

\* C7 witness: both kinds of sign-in were refused: the last one named a held
\* email with a wrong password
C7_Witness ==
  /\ resp.op = "sign-in" /\ resp.status = 401
  /\ \E u \in users : /\ u.email = NormalizeEmail(resp.email)
                      /\ ~bcryptCompare(resp.password, u.password)

\* the operations behind authenticateToken
Guarded == {"delete-user", "protected"}

\* C8: a token signed for one purpose is refused where another purpose is
\* expected: authenticateToken answers 403 to every refresh and reset token
\* and the guarded operation does not run; POST /token answers 401 (or
\* nothing, when the store call fails) to every access and reset token; POST
\* /reset-password/:token never gets past its lookup with an access or
\* refresh token, and answers it 400, 401 or 500.
C8_PurposeBound ==
  /\ (resp.op \in Guarded /\ resp.token.key \in {RefreshKey, ResetKey})
     => (resp.status = 403 /\ ~resp.ran)
  /\ (resp.op = "token" /\ resp.token.key \in {AccessKey, ResetKey})
     => (resp.status \in {401, NoResponse} /\ resp.accessToken = NoToken)
  /\ (resp.op = "reset-confirm" /\ resp.token.key \in {AccessKey, RefreshKey})
     => resp.status \in {400, 401, 500}
  /\ \A s \in Slots :
       /\ PastLookup(s) => reqs[s].token.key = ResetKey
       /\ reqs[s].pc = "du_tokens" => reqs[s].token.key = AccessKey

\* C8 witness: the guard refused a reset token that the ledger still holds
\* and whose expiry has not come
C8_Witness ==
  /\ resp.op \in Guarded /\ resp.status = 403
  /\ resp.token.key = ResetKey
  /\ LiveRecord(resetTokens, resp.token, now)

\* C9: a POST /token with a refresh token of which the ledger holds a record
\* that has not expired answers 200 (or nothing, when the store call fails)
\* with an access token that authenticateToken accepts and whose subject is
\* the user that record names, the user the sign-in found; a sign-in stores
\* its refresh token under the user it found.
C9_RefreshKeepsSubject ==
  [][ /\ (AnsweredAtOnce /\ NoFault /\ resp'.op = "token"
            /\ LiveRecord(refreshTokens, resp'.token, now))
         => /\ resp'.status = 200
            /\ authenticateToken(<<"Bearer", resp'.accessToken>>, now).next
            /\ \A i \in 1..Len(refreshTokens) :
                 refreshTokens[i].token = resp'.token
                 => authenticateToken(<<"Bearer", resp'.accessToken>>, now).userId
                      = refreshTokens[i].user
      /\ \A s \in Slots :
           (Moved(s, "si_save", "idle") /\ resp'.status = 200)
           => /\ refreshTokens' = Append(refreshTokens, refreshTokens'[Len(refreshTokens')])
              /\ refreshTokens'[Len(refreshTokens')].token = resp'.refreshToken
              /\ refreshTokens'[Len(refreshTokens')].user = reqs[s].userId
    ]_vars

\* C9 witness: a refresh for one user answered 200 while the ledger holds a
\* refresh token of another user, who signed in in between
C9_Witness ==
  /\ resp.op = "token" /\ resp.status = 200
  /\ \E i \in 1..Len(refreshTokens) : refreshTokens[i].user # resp.user
  /\ \E i \in 1..Len(refreshTokens) : refreshTokens[i].user = resp.user

\* C10: authenticateToken answers 401 when the header or its token segment is
\* absent, 403 when jwt.verify under the access key fails, and the guarded
\* operation does not run after either; otherwise it sends nothing itself,
\* sets req.user to the decoded subject and the operation runs.
C10_GuardDecides ==
  [][ /\ (AnsweredAtOnce /\ resp'.op \in Guarded)
         => LET token == BearerToken(resp'.header)
            IN IF Len(resp'.header) < 2
               THEN resp'.status = 401 /\ ~resp'.ran
               ELSE IF jwtVerifyErr(token, AccessKey, now)
               THEN resp'.status = 403 /\ ~resp'.ran
               ELSE /\ resp'.ran /\ resp'.user = token.userId
                    /\ resp'.status = IF resp'.op = "protected" THEN 200 ELSE 500
      /\ \A s \in Slots :
           Moved(s, "idle", "du_tokens")
           => /\ ~jwtVerifyErr(reqs'[s].token, AccessKey, now)
              /\ reqs'[s].userId = reqs'[s].token.userId
              /\ reqs'[s].sent = NoResponse
      /\ (Started /\ users' # users)
         => \E s \in Slots : Moved(s, "idle", "du_tokens")
    ]_vars

\* C10 witness: the guard answered 403 to an access token of a sign-in whose
\* hour had passed, after a deletion it had let run
C10_Witness ==
  /\ resp.op \in Guarded /\ resp.status = 403 /\ ~resp.ran
  /\ resp.token.key = AccessKey
  /\ deleted # {}

\* C11: DELETE /delete-user removes the User record of req.user.userId and
\* nothing else with its first store call, and with its second, before it
\* answers 200, every RefreshToken record of that user and no other; no step
\* of it changes a ResetToken record, and at the 200 no User record and no
\* RefreshToken record of the user is left.
C11_DeleteFrame ==
  [][ \A s \in Slots :
        /\ Moved(s, "idle", "du_tokens")
           => /\ users' = {u \in users : u.id # reqs'[s].userId}
              /\ refreshTokens' = refreshTokens
              /\ resetTokens' = resetTokens
        /\ (Moved(s, "du_tokens", "idle") /\ resp'.status = 200)
           => /\ refreshTokens'
                   = SelectSeq(refreshTokens, LAMBDA d : d.user # reqs[s].userId)
              /\ users' = users
              /\ resetTokens' = resetTokens
              /\ \A u \in users' : u.id # reqs[s].userId
        /\ (Moved(s, "du_tokens", "idle") /\ resp'.status # 200)
           => /\ refreshTokens' = refreshTokens
              /\ users' = users
              /\ resetTokens' = resetTokens
    ]_vars

\* C11 witness: a deletion answered 200 and left a ResetToken record of the
\* deleted user, a User record and a RefreshToken record of another user
C11_Witness ==
  /\ resp.op = "delete-user" /\ resp.status = 200
  /\ \E i \in 1..Len(resetTokens) : resetTokens[i].user = resp.user
  /\ \E u \in users : u.id # resp.user
  /\ \E i \in 1..Len(refreshTokens) : refreshTokens[i].user # resp.user

\* C12: POST /token changes no collection, and a refresh token it accepted
\* before is answered 200 again for the same subject (the store call not
\* failing) as long as the ledger holds a record of it that has not expired,
\* and 401 once it holds none.
C12_RefreshLeavesLedger ==
  [][ /\ (AnsweredAtOnce /\ resp'.op = "token")
         => /\ refreshTokens' = refreshTokens
            /\ resetTokens' = resetTokens
            /\ users' = users
      /\ (AnsweredAtOnce /\ NoFault /\ resp'.op = "token" /\ resp'.token \in refreshed)
         => IF LiveRecord(refreshTokens, resp'.token, now)
            THEN /\ resp'.status = 200
                 /\ resp'.accessToken.key = AccessKey
                 /\ resp'.accessToken.userId = resp'.token.userId
            ELSE resp'.status = 401
    ]_vars

\* C12 witness: a refresh token was accepted a second time, after the clock
\* had moved on, and its record is still in the ledger
C12_Witness ==
  /\ resp.op = "token" /\ resp.status = 200 /\ resp.late
  /\ advances > 0
  /\ resp.accessToken.iat # resp.token.iat
  /\ LiveRecord(refreshTokens, resp.token, now)

\* C13: whether a guarded operation runs is decided by the presented token
\* and the clock alone: it runs exactly when the token is signed with the
\* access secret and the clock, in seconds, is before its exp, whatever the
\* User and RefreshToken collections hold.
C13_GuardStateless ==
  [][ (AnsweredAtOnce /\ resp'.op \in Guarded)
      => (resp'.ran <=> /\ resp'.token.key = AccessKey
                        /\ ClockSec(now) < resp'.token.exp)
    ]_vars

\* C13 witness: GET /protected answered 200 to the access token of a user
\* whose deletion had answered 200, with no User record and no RefreshToken
\* record of that user left
C13_Witness ==
  /\ resp.op = "protected" /\ resp.status = 200 /\ resp.ran
  /\ resp.user \in deleted
  /\ \A u \in users : u.id # resp.user
  /\ \A i \in 1..Len(refreshTokens) : refreshTokens[i].user # resp.user

\* C14 (as claimed): when a POST /reset-password/:token has saved the new
\* password and its ResetToken.findOneAndDelete then failed, a later request
\* with the same token is not answered 200.
C14_HalfDoneTokenRefused ==
  (resp.op = "reset-confirm" /\ resp.redo) => resp.status # 200

\* the first record of `ledger` that holds the string `token` exists and
\* expires strictly after clock t
FirstLive(ledger, token, t) ==
  \E i \in 1..Len(ledger) :
    /\ ledger[i].token = token
    /\ \A j \in 1..(i - 1) : ledger[j].token # token
    /\ ledger[i].expiryDate > t

\* C15: the lookup of POST /reset-password/:token takes nothing from the
\* ledger and is not held up by a request in flight: a token whose record is
\* stored and unexpired and that verifies is never refused at the lookup;
\* every request past the lookup whose user exists writes the hash of its
\* own password, and answers 200 after its deletion call, whether or not
\* the record was still there (no store call failing).
C15_ConfirmNotAtomic ==
  [][ /\ (AnsweredAtOnce /\ NoFault /\ resp'.op = "reset-confirm"
            /\ resp'.password.head # "")
         => ~ /\ FirstLive(resetTokens, resp'.token, now)
              /\ resp'.token.key = ResetKey
              /\ ClockSec(now) < resp'.token.exp
      /\ \A s \in Slots :
           /\ Moved(s, "idle", "rc_user") => resetTokens' = resetTokens
           /\ Moved(s, "rc_user", "rc_save") => resetTokens' = resetTokens
           /\ Moved(s, "rc_save", "rc_delete")
              => /\ resetTokens' = resetTokens
                 /\ \E u \in users' :
                      /\ u.id = reqs[s].userId
                      /\ bcryptCompare(reqs[s].password, u.password)
                      /\ u \notin users
           /\ (Moved(s, "rc_delete", "idle") /\ NoFault) => resp'.status = 200
    ]_vars

\* C15 witness: two requests with the one reset token ever issued both saved
\* a password for its user and both answered 200, no store call failing; the
\* one answered last had passed its lookup before the other deleted the record
C15_Witness ==
  /\ resp.op = "reset-confirm" /\ resp.status = 200 /\ ~resp.late
  /\ faults = 0
  /\ \A s \in Slots : reqs[s].pc = "idle"
  /\ {t \in issued : t.key = ResetKey} = {resp.token}
  /\ \E u \in users : u.id = resp.user /\ u.password.salt.n >= 3
  /\ \A i \in 1..Len(resetTokens) : resetTokens[i].token # resp.token

\* C16 (as claimed): every request that has ended was sent a response, also
\* when one of its store calls failed.
C16_AlwaysAnswered ==
  resp.op # "none" => resp.status # NoResponse

C18_ResetReplacesPassword ==
  [][ \A s \in Slots :
        /\ Moved(s, "rc_save", "rc_delete")
           => \E old \in users, new \in users' :
                /\ old.id = reqs[s].userId /\ new.id = old.id
                /\ users' \ {new} = users \ {old}
                /\ bcryptCompare(reqs[s].password, new.password)
                /\ \A p \in Passwords \cup LongPasswords :
                     (bcryptCompare(p, old.password) /\ p # reqs[s].password)
                     => ~bcryptCompare(p, new.password)
        /\ (Moved(s, "rc_delete", "idle") /\ resp'.status = 200)
           => \A u \in users' :
                u.id = reqs[s].userId => bcryptCompare(reqs[s].password, u.password)
    ]_vars

\* the identifiers of the User records stored
ActiveIds == {u.id : u \in users}

\* C19: an identifier becomes that of a stored User record only by the
\* user.save() of a POST /sign-up that answers 201, and it is an identifier
\* never given out before; it stops being one only by the
\* User.findByIdAndDelete of a DELETE /delete-user for it; an identifier given
\* out is never given out again, and no identifier whose deletion answered 200
\* is that of a stored record.
C19_AccountLifecycle ==
  [][ /\ \A id \in ActiveIds' \ ActiveIds :
           /\ id = nextId /\ nextId' = nextId + 1
           /\ \E s \in Slots : Moved(s, "su_save", "idle")
           /\ resp'.op = "sign-up" /\ resp'.status = 201 /\ resp'.user = id
      /\ \A id \in ActiveIds \ ActiveIds' :
           \E s \in Slots : Moved(s, "idle", "du_tokens") /\ reqs'[s].userId = id
      /\ nextId' >= nextId
      /\ \A id \in ActiveIds' : id < nextId' /\ id \notin deleted'
    ]_vars

\* C19 witness: the account of the seed email was deleted and the email was
\* registered again, under a new identifier
C19_Witness ==
  /\ resp.op = "sign-up" /\ resp.status = 201
  /\ \E id \in deleted :
       /\ id \notin ActiveIds
       /\ \E u \in users : u.id = resp.user /\ u.id # id
                            /\ u.email = NormalizeEmail(SeedEmail)

\* C20 (as claimed): the exp of a reset token and the expiryDate of its
\* ledger record are one instant, so POST /reset-password/:token never finds
\* a reset token it issued unexpired in the ledger and expired by jwt.verify:
\* it never answers such a token 403.
C20_ExpiriesAgree ==
  (resp.op = "reset-confirm" /\ resp.token \in issued /\ resp.token.key = ResetKey)
  => resp.status # 403

\* C21 (as claimed): when no request is in flight (and no store call has
\* failed), every RefreshToken record is owned by a stored User.
C21_NoOrphanRefreshRecord ==
  (faults = 0 /\ \A s \in Slots : reqs[s].pc = "idle")
  => \A i \in 1..Len(refreshTokens) : refreshTokens[i].user \in ActiveIds

\* C22 (as claimed): a POST /reset-password/:token with a password and a
\* reset token whose user was deleted, and whose record the ledger still
\* holds, is answered 404 (no store call failing).
C22_LeftoverAnswered404 ==
  (resp.op = "reset-confirm" /\ resp.password.head # ""
     /\ resp.token.key = ResetKey /\ resp.token \in issued
     /\ resp.token.userId \in deleted
     /\ (\E i \in 1..Len(resetTokens) : resetTokens[i].token = resp.token)
     /\ resp.status \notin {NoResponse, 500})
  => resp.status = 404

\* C22 (amended): a POST /reset-password/:token with a token whose user was
\* deleted changes no collection; it is answered at the lookup with 400, 401,
\* 403 or 500, or, once past the lookup with no User record of the token's
\* userId, with 404 (no store call failing); a password is only ever saved
\* to the stored record whose id is the token's userId, so never to a record
\* that registered the same email again.
C22_LeftoverTokenHarmless ==
  [][ /\ (AnsweredAtOnce /\ resp'.op = "reset-confirm" /\ resp'.token.userId \in deleted)
         => /\ resp'.status \in {400, 401, 403, 500}
            /\ UNCHANGED store
      /\ \A s \in Slots :
           /\ (reqs[s].pc = "rc_user" /\ reqs'[s] # reqs[s] /\ NoFault
                 /\ reqs[s].userId \notin ActiveIds)
              => /\ resp'.op = "reset-confirm" /\ resp'.status = 404
                 /\ resp'.token = reqs[s].token
                 /\ reqs'[s].pc = "idle"
                 /\ UNCHANGED store
           /\ Moved(s, "rc_save", "rc_delete")
              => /\ reqs[s].userId = reqs[s].token.userId
                 /\ reqs[s].userId \in ActiveIds
                 /\ reqs[s].userId \notin deleted
                 /\ \A u \in users : u.id # reqs[s].userId => u \in users'
      /\ \A u \in users : (u.id \in ActiveIds' /\ u \notin users')
           => \E s \in Slots : Moved(s, "rc_save", "rc_delete") /\ reqs[s].userId = u.id
    ]_vars

\* C22 witness: the reset token of a deleted user, its record unexpired, was
\* answered 404 after the email of that user had been registered again
C22_Witness ==
  /\ resp.op = "reset-confirm" /\ resp.status = 404
  /\ resp.token.userId \in deleted
  /\ LiveRecord(resetTokens, resp.token, now)
  /\ \E u \in users : /\ u.id # resp.token.userId
                      /\ u.email = NormalizeEmail(SeedEmail)
                      /\ u.password.salt.n = 1

\* the statuses of a business-rule failure
Failures == {400, 401, 403, 404, 409}

\* the operations C23 is about
Unguarded == {"sign-up", "sign-in", "token", "reset-password", "reset-confirm"}

\* C23: a request of POST /sign-up, /sign-in, /token, /reset-password or
\* /reset-password/:token that is answered 400, 401, 403, 404 or 409 has
\* changed no User, RefreshToken or ResetToken record: the step that answers
\* changes none, and it is the first step of the request or the step after
\* the lookup of a reset confirmation, which changes none either.
C23_FailureWritesNothing ==
  [][ /\ (AnsweredAtOnce /\ resp'.op \in Unguarded /\ resp'.status \in Failures)
         => UNCHANGED store
      /\ \A s \in Slots :
           /\ (Finished(s) /\ resp'.op \in Unguarded /\ resp'.status \in Failures)
              => /\ UNCHANGED store
                 /\ reqs[s].pc = "rc_user"
                 /\ resp'.op = "reset-confirm" /\ resp'.status = 404
           /\ Moved(s, "idle", "rc_user") => UNCHANGED store
    ]_vars

\* C23 witness: POST /token answered 401 to a refresh token whose record has
\* expired, and the record is still in the ledger
C23_Witness ==
  /\ resp.op = "token" /\ resp.status = 401
  /\ resp.token.key = RefreshKey
  /\ \E i \in 1..Len(refreshTokens) :
       refreshTokens[i].token = resp.token /\ refreshTokens[i].expiryDate <= now

\* C24: every token string in the RefreshToken ledger is signed with the
\* refresh secret and carries no exp, and POST /token never answers 403: it
\* answers 400, 401 or 200 when its store call does not fail, and nothing
\* when it does.
C24_RefreshNeverForbidden ==
  [][ /\ \A i \in 1..Len(refreshTokens') :
           /\ refreshTokens'[i].token.key = RefreshKey
           /\ refreshTokens'[i].token.exp = NoExp
      /\ (AnsweredAtOnce /\ resp'.op = "token")
         => IF NoFault THEN resp'.status \in {400, 401, 200}
            ELSE resp'.status = NoResponse
    ]_vars

\* C24 witness: POST /token accepted a refresh token an hour or more after it
\* was signed
C24_Witness ==
  /\ resp.op = "token" /\ resp.status = 200
  /\ resp.accessToken.iat >= resp.token.iat + HourSec

\* C25: no step of POST /reset-password/:token changes the RefreshToken
\* ledger, and a POST /token that follows its 200 with a refresh token of the
\* same user whose record is stored and unexpired is answered 200 (its store
\* call not failing).
C25_ResetKeepsRefreshTokens ==
  [][ /\ \A s \in Slots :
           (reqs'[s] # reqs[s] /\ (PastLookup(s) \/ PastLookup(s)'))
           => refreshTokens' = refreshTokens
      /\ (AnsweredAtOnce /\ resp'.op = "reset-confirm")
         => refreshTokens' = refreshTokens
      /\ (resp.op = "reset-confirm" /\ resp.status = 200
            /\ AnsweredAtOnce /\ NoFault /\ resp'.op = "token"
            /\ resp'.token.userId = resp.user
            /\ FirstLive(refreshTokens, resp'.token, now))
         => (resp'.status = 200 /\ resp'.accessToken.userId = resp.user)
    ]_vars

\* C25 witness: a refresh token that POST /token had accepted was accepted
\* again after a reset of its user's password had answered 200
C25_Witness ==
  /\ resp.op = "token" /\ resp.status = 200 /\ resp.late
  /\ \E t \in consumed : t.userId = resp.user
  /\ \E u \in users : u.id = resp.user /\ u.password.salt.n >= 2

====
